---- MODULE Spec2Model ----
(***************************************************************************)
(* A model of export_data.py: the export of velocity picks and portfolio   *)
(* statistics to data/picks.json and data/portfolio.json.                   *)
(*                                                                         *)
(* Python values whose type varies at run time are modelled as tagged      *)
(* records ([type |-> "NoneType"], [type |-> "int", value |-> 3], ...);    *)
(* a str is the sequence of its characters; a call either returns a value  *)
(* or raises, Returned(v) or Raised(e).                                    *)
(***************************************************************************)
EXTENDS Integers, Sequences, FiniteSets, TLC

VARIABLES
    pc,            \* position of the running code
    picksSrc,      \* the file PICKS_SRC (velocity_picks.json)
    monitorDb,     \* the file MONITOR_DB (velocity_monitor.sqlite)
    picksDst,      \* the file PICKS_DST (data/picks.json)
    portfolioDst,  \* the file PORTFOLIO_DST (data/portfolio.json)
    conn,          \* the sqlite3 connection of export_portfolio
    nQueries,      \* the number of statements executed on conn
    all_rows,      \* the local all_rows of export_portfolio
    arg,           \* the argument of a single call of a function
    ret            \* what that call returned or raised

vars == <<pc, picksSrc, monitorDb, picksDst, portfolioDst, conn, nQueries,
          all_rows, arg, ret>>

----------------------------------------------------------------------------
(* Bounds of the model. *)

MaxDetailLen == 4
MaxSignals == 2

----------------------------------------------------------------------------
(* Python values. *)

PyNone == [type |-> "NoneType"]
PyInt(n) == [type |-> "int", value |-> n]
PyFloat(x) == [type |-> "float", value |-> x]
PyStr(s) == [type |-> "str", value |-> s]
PyList(xs) == [type |-> "list", items |-> xs]
PyDict(f) == [type |-> "dict", fields |-> f]

Returned(v) == [returned |-> v]
Raised(e) == [raised |-> e]
IsReturned(r) == "returned" \in DOMAIN r
IsRaised(r) == "raised" \in DOMAIN r
NotCalled == [pending |-> TRUE]

Absent == [exists |-> FALSE]
File(c) == [exists |-> TRUE, content |-> c]

SeqsUpTo(S, n) == UNION {[1..k -> S] : k \in 0..n}

----------------------------------------------------------------------------
(* _parse_sample_size *)

DigitChars == <<"0", "1", "2", "3", "4", "5", "6", "7", "8", "9">>
IsDigit(c) == \E i \in 1..Len(DigitChars) : DigitChars[i] = c
DigitValue(c) == (CHOOSE i \in 1..Len(DigitChars) : DigitChars[i] = c) - 1

\* the character class [\d,]
InClass(c) == IsDigit(c) \/ c = ","

\* n=([\d,]+) matches at position i of s
MatchesAt(s, i) ==
    /\ i + 2 <= Len(s)
    /\ s[i] = "n"
    /\ s[i + 1] = "="
    /\ InClass(s[i + 2])

\* the end of the greedy run [\d,]+ that starts at position j of s
RunEnd(s, j) ==
    CHOOSE k \in j..Len(s) :
        /\ \A m \in j..k : InClass(s[m])
        /\ (k = Len(s) \/ ~InClass(s[k + 1]))

\* re.search(r"n=([\d,]+)", s): group 1 of the leftmost match, or None
ReSearch(s) ==
    IF \E i \in 1..Len(s) : MatchesAt(s, i)
    THEN LET i == CHOOSE i \in 1..Len(s) :
                      MatchesAt(s, i) /\ \A j \in 1..(i - 1) : ~MatchesAt(s, j)
         IN  PyStr(SubSeq(s, i + 2, RunEnd(s, i + 2)))
    ELSE PyNone

\* str.replace(",", "")
RemoveCommas(s) == SelectSeq(s, LAMBDA c : c # ",")

RECURSIVE DecimalValue(_)
DecimalValue(s) ==
    IF s = <<>> THEN 0
    ELSE DecimalValue(SubSeq(s, 1, Len(s) - 1)) * 10 + DigitValue(s[Len(s)])

\* int(s) for a str s of decimal digits: int("") raises ValueError
IntOfStr(s) ==
    IF s = <<>> THEN Raised("ValueError") ELSE Returned(PyInt(DecimalValue(s)))

\* detail is None or a str
_parse_sample_size(detail) ==
    LET text == IF detail = PyNone \/ detail.value = <<>> THEN <<>> ELSE detail.value
        m == ReSearch(text)
    IN  IF m # PyNone THEN IntOfStr(RemoveCommas(m.value)) ELSE Returned(PyNone)

----------------------------------------------------------------------------
(* _get_aligned_bin_signal, sanitize_pick, _get_aligned_bin_from_json *)

\* dict.get(k, default) and dict.get(k)
DictGet(f, k, default) == IF k \in DOMAIN f THEN f[k] ELSE default
Get(f, k) == DictGet(f, k, PyNone)

SetToSeq(S) ==
    CHOOSE f \in [1..Cardinality(S) -> S] : \A i, j \in DOMAIN f : f[i] = f[j] => i = j

\* what "for s in v" visits: the items of a list, the keys of a dict, the
\* characters of a str; any other value is not iterable
Iterate(v) ==
    CASE v.type = "list" -> Returned(v.items)
      [] v.type = "dict" ->
            Returned([i \in 1..Cardinality(DOMAIN v.fields) |->
                          PyStr(SetToSeq(DOMAIN v.fields)[i])])
      [] v.type = "str" -> Returned([i \in 1..Len(v.value) |-> PyStr(<<v.value[i]>>)])
      [] OTHER -> Raised("TypeError")

\* mutants of IsAlignedBin: the source, or the direction, is not compared
IsAlignedBin_AnySource(s, direction) ==
    /\ "direction" \in DOMAIN s.fields
    /\ s.fields.direction = direction

IsAlignedBin_AnyDirection(s, direction) ==
    /\ "source" \in DOMAIN s.fields
    /\ s.fields.source = "bin"

\* s.get("source") == "bin" and s.get("direction") == direction, for a dict s
IsAlignedBin(s, direction) ==
    /\ "source" \in DOMAIN s.fields
    /\ s.fields.source = "bin"
    /\ "direction" \in DOMAIN s.fields
    /\ s.fields.direction = direction

\* mutant of ScanSignals: the last match is returned, not the first
ScanSignals_Last(items, direction, i) ==
    LET S == {k \in i..Len(items) :
                  items[k].type = "dict" /\ IsAlignedBin(items[k], direction)}
    IN  IF S = {} THEN Returned(PyNone)
        ELSE Returned(items[CHOOSE k \in S : \A j \in S : j <= k])

\* the loop of _get_aligned_bin_signal from item i on: s.get raises
\* AttributeError on an item that is no dict
RECURSIVE ScanSignals(_, _, _)
ScanSignals(items, direction, i) ==
    IF i > Len(items) THEN Returned(PyNone)
    ELSE IF items[i].type # "dict" THEN Raised("AttributeError")
    ELSE IF IsAlignedBin(items[i], direction) THEN Returned(items[i])
    ELSE ScanSignals(items, direction, i + 1)

_get_aligned_bin_signal(signals, direction) ==
    LET it == Iterate(signals)
    IN  IF IsRaised(it) THEN it ELSE ScanSignals(it.returned, direction, 1)

\* pick is the dict of a pick; the dict display is evaluated in order, so
\* the first failing subscript decides the exception
sanitize_pick(pick) ==
    IF "direction" \notin DOMAIN pick THEN Raised("KeyError")
    ELSE
    LET signals == DictGet(pick, "signals", PyList(<<>>))
        found == _get_aligned_bin_signal(signals, pick.direction)
    IN  IF IsRaised(found) THEN found
        ELSE IF ~({"market_id", "question"} \subseteq DOMAIN pick) THEN Raised("KeyError")
        ELSE IF found.returned = PyNone THEN Raised("TypeError")
        ELSE IF "edge" \notin DOMAIN found.returned.fields THEN Raised("KeyError")
        ELSE
        LET bin_sig == found.returned.fields
            bin_n == _parse_sample_size(Get(bin_sig, "detail"))
        IN  IF IsRaised(bin_n) THEN bin_n
            ELSE IF ~({"market_implied", "n_signals", "score", "hours_to_resolve"}
                          \subseteq DOMAIN pick)
            THEN Raised("KeyError")
            ELSE Returned([market_id |-> pick.market_id,
                           question |-> pick.question,
                           direction |-> pick.direction,
                           bin_edge |-> bin_sig.edge,
                           bin_win_rate |-> Get(bin_sig, "win_rate"),
                           bin_n |-> bin_n.returned,
                           market_implied |-> pick.market_implied,
                           n_signals |-> pick.n_signals,
                           score |-> pick.score,
                           hours_to_resolve |-> pick.hours_to_resolve])

\* A text is a str: PyStr(s) with the characters s, or, where only what it
\* parses to matters, JsonText(v), a text that is the JSON of the value v,
\* or BadText, a text that is not JSON.
EmptyText == PyStr(<<>>)
BadText == [type |-> "str", json_error |-> TRUE]
JsonText(v) == [type |-> "str", json |-> v]

\* bool(x)
Truthy(x) ==
    CASE x.type = "NoneType" -> FALSE
      [] x.type = "str" -> x # EmptyText
      [] x.type = "int" -> x.value # 0
      [] x.type = "float" -> x.value # 0
      [] x.type = "list" -> x.items # <<>>
      [] OTHER -> TRUE

\* json.loads(x): TypeError unless x is a text, JSONDecodeError unless it is JSON
json_loads(x) ==
    IF x.type # "str" THEN Raised("TypeError")
    ELSE IF "json" \in DOMAIN x THEN Returned(x.json)
    ELSE Raised("JSONDecodeError")

_get_aligned_bin_from_json(signals_json, direction) ==
    LET loaded == IF Truthy(signals_json) THEN json_loads(signals_json)
                  ELSE Returned(PyList(<<>>))
    IN  IF IsRaised(loaded) /\ loaded.raised \in {"JSONDecodeError", "TypeError"}
        THEN Returned(PyNone)
        ELSE _get_aligned_bin_signal(loaded.returned, direction)

\* lines 127-133 of export_portfolio for one row r: the row is skipped
\* (None), or kept with bin_edge and bin_n and without signals_json
AlignedRow(r) ==
    LET found == _get_aligned_bin_from_json(r.signals_json, r.direction)
    IN  IF IsRaised(found) THEN found
        ELSE IF found.returned = PyNone THEN Returned(PyNone)
        ELSE IF "edge" \notin DOMAIN found.returned.fields THEN Raised("KeyError")
        ELSE
        LET bin_sig == found.returned.fields
            bin_n == _parse_sample_size(Get(bin_sig, "detail"))
        IN  IF IsRaised(bin_n) THEN bin_n
            ELSE Returned([k \in DOMAIN r \ {"signals_json"} |-> r[k]]
                          @@ [bin_edge |-> bin_sig.edge, bin_n |-> bin_n.returned])

----------------------------------------------------------------------------
(* sorting, rounding, json *)

\* sorted(s, key=...): the stable sort of s, where lt[i, j] says that the
\* key of s[i] is before the key of s[j] in the order of the sort; s[1],
\* s[2], ... are inserted each after the items that are not after it
SortedBy(s, lt) ==
    LET RECURSIVE Order(_)
        Order(n) ==
            IF n = 0 THEN <<>>
            ELSE LET prev == Order(n - 1)
                     k == Cardinality({j \in 1..Len(prev) : ~lt[n, prev[j]]})
                 IN  SubSeq(prev, 1, k) \o <<n>> \o SubSeq(prev, k + 1, Len(prev))
        order == Order(Len(s))
    IN  [p \in 1..Len(s) |-> s[order[p]]]

\* s[:k]
Take(s, k) == SubSeq(s, 1, IF Len(s) < k THEN Len(s) ELSE k)

RECURSIVE SumSeq(_)
SumSeq(s) == IF s = <<>> THEN 0 ELSE s[1] + SumSeq(Tail(s))

\* round(n / d) for d > 0, in the unit of the result: halves go to the even
RoundDiv(n, d) ==
    LET q == n \div d
        r == n % d
    IN  IF 2 * r < d THEN q
        ELSE IF 2 * r > d THEN q + 1
        ELSE IF q % 2 = 0 THEN q ELSE q + 1

\* json.dumps(v, indent=2): the JSON text of v
json_dumps(v) == JsonText(v)

----------------------------------------------------------------------------
(* export_picks *)

\* p.get("hours_to_resolve", float("inf")) of a is less than that of b
HoursLt(a, b) ==
    /\ "hours_to_resolve" \in DOMAIN a
    /\ ("hours_to_resolve" \in DOMAIN b => a.hours_to_resolve < b.hours_to_resolve)

\* line 80 for pick p
PickFilter(p) ==
    IF "direction" \notin DOMAIN p THEN Raised("KeyError")
    ELSE _get_aligned_bin_signal(DictGet(p, "signals", PyList(<<>>)), p.direction)

\* line 85 raises KeyError: any() reaches a signal without "source" before
\* it reaches a bin signal
BinTotalRaises(picks) ==
    \E i \in 1..Len(picks) :
        LET items == DictGet(picks[i], "signals", PyList(<<>>)).items
        IN  \E k \in 1..Len(items) :
                /\ "source" \notin DOMAIN items[k].fields
                /\ \A j \in 1..(k - 1) : items[j].fields.source # "bin"

\* what export_picks does with the file src: the text it writes, if any,
\* and whether it returns or raises; the text "[]" is the JSON of the empty
\* array
export_picks(src) ==
    IF ~src.exists THEN [written |-> JsonText(<<>>), result |-> Returned(PyNone)]
    ELSE
    LET loaded == json_loads(src.content)
    IN  IF IsRaised(loaded) THEN [written |-> PyNone, result |-> loaded]
        ELSE
        LET picks == loaded.returned
            checks == [i \in 1..Len(picks) |-> PickFilter(picks[i])]
        IN  IF \E i \in 1..Len(picks) : IsRaised(checks[i])
            THEN [written |-> PyNone,
                  result |-> checks[CHOOSE i \in 1..Len(picks) :
                                 /\ IsRaised(checks[i])
                                 /\ \A j \in 1..(i - 1) : ~IsRaised(checks[j])]]
            ELSE
            LET aligned == SelectSeq(picks, LAMBDA p : PickFilter(p).returned # PyNone)
                sorted == SortedBy(aligned, [i, j \in 1..Len(aligned) |->
                                               HoursLt(aligned[i], aligned[j])])
                public == [i \in 1..Len(sorted) |-> sanitize_pick(sorted[i])]
            IN  IF \E i \in 1..Len(sorted) : IsRaised(public[i])
                THEN [written |-> PyNone,
                      result |-> public[CHOOSE i \in 1..Len(sorted) :
                                     /\ IsRaised(public[i])
                                     /\ \A j \in 1..(i - 1) : ~IsRaised(public[j])]]
                ELSE [written |-> json_dumps([i \in 1..Len(sorted) |-> public[i].returned]),
                      result |-> IF BinTotalRaises(picks) THEN Raised("KeyError")
                                 ELSE Returned(PyNone)]

----------------------------------------------------------------------------
(* export_portfolio *)

ResolutionLimit == 50

\* mutant of EmptyPortfolio: avg_bin_edge starts as 0.0
EmptyPortfolio_ZeroEdge ==
    [updated_at |-> "now",
     summary |-> [pending |-> 0, wins |-> 0, losses |-> 0, win_rate |-> PyFloat(0),
                  total_pnl |-> PyFloat(0), avg_bin_edge |-> PyFloat(0)],
     pending_picks |-> <<>>,
     recent_resolutions |-> <<>>]

\* the portfolio of lines 96-108
EmptyPortfolio ==
    [updated_at |-> "now",
     summary |-> [pending |-> 0, wins |-> 0, losses |-> 0, win_rate |-> PyFloat(0),
                  total_pnl |-> PyFloat(0), avg_bin_edge |-> PyNone],
     pending_picks |-> <<>>,
     recent_resolutions |-> <<>>]

Project(r, keys) == [k \in keys |-> r[k]]

\* r["resolved_at"] or "" of a sorts after that of b: a str sorts by its
\* place in the order of strs, "" before every other
ResolvedKey(r) == IF Truthy(r.resolved_at) THEN r.resolved_at.order ELSE 0
\* mutant of ResolvedLater: the sort is ascending
ResolvedLater_Ascending(a, b) == ResolvedKey(a) < ResolvedKey(b)
ResolvedLater(a, b) == ResolvedKey(a) > ResolvedKey(b)

\* lines 136-170 for the list aligned_rows
Summarize(aligned_rows) ==
    LET n == Len(aligned_rows)
        Count(s) == Cardinality({i \in 1..n : aligned_rows[i].status = s})
        pending == Count("pending")
        wins == Count("won")
        losses == Count("lost")
        IsResolved(r) == r.status \in {"won", "lost"}
        paid == SelectSeq(aligned_rows, LAMBDA r : IsResolved(r) /\ Truthy(r.pnl))
        total_pnl == SumSeq([i \in 1..Len(paid) |-> paid[i].pnl.value])
        resolved == wins + losses
        closed == SelectSeq(aligned_rows, IsResolved)
        resolved_rows ==
            Take(SortedBy(closed, [i, j \in 1..Len(closed) |->
                                      ResolvedLater(closed[i], closed[j])]),
                 ResolutionLimit)
        pending_rows == SelectSeq(aligned_rows, LAMBDA r : r.status = "pending")
    IN  [updated_at |-> "now",
         summary |->
            [pending |-> pending,
             wins |-> wins,
             losses |-> losses,
             win_rate |-> IF resolved > 0 THEN PyFloat(RoundDiv(wins * 10000, resolved))
                          ELSE PyFloat(0),
             total_pnl |-> IF paid = <<>> THEN PyInt(0)
                           ELSE PyFloat(RoundDiv(total_pnl, 10)),
             avg_bin_edge |->
                IF n > 0
                THEN PyFloat(RoundDiv(SumSeq([i \in 1..n |-> aligned_rows[i].bin_edge]), n))
                ELSE PyNone],
         pending_picks |->
            [i \in 1..Len(pending_rows) |->
                Project(pending_rows[i],
                        {"market_id", "question", "direction", "order_price",
                         "mid_price", "first_seen", "bin_edge", "bin_n"})],
         recent_resolutions |->
            [i \in 1..Len(resolved_rows) |->
                Project(resolved_rows[i],
                        {"market_id", "question", "direction", "status", "pnl",
                         "resolved_at", "bin_edge", "bin_n"})]]

\* lines 125-170 for the fetched rows: the first row that raises ends the loop
BuildPortfolio(rows) ==
    LET kept == [i \in 1..Len(rows) |-> AlignedRow(rows[i])]
    IN  IF \E i \in 1..Len(rows) : IsRaised(kept[i])
        THEN kept[CHOOSE i \in 1..Len(rows) :
                      IsRaised(kept[i]) /\ \A j \in 1..(i - 1) : ~IsRaised(kept[j])]
        ELSE Returned(Summarize(
                 SelectSeq([i \in 1..Len(rows) |-> kept[i].returned],
                           LAMBDA d : d # PyNone)))

----------------------------------------------------------------------------
(* A single call of _parse_sample_size. *)

DetailChars == {"n", "=", "1", "2", ",", "x"}
Details == {PyNone} \cup {PyStr(s) : s \in SeqsUpTo(DetailChars, MaxDetailLen)}

Idle ==
    /\ picksSrc = Absent
    /\ monitorDb = Absent
    /\ picksDst = Absent
    /\ portfolioDst = Absent
    /\ conn = "none"
    /\ nQueries = 0
    /\ all_rows = <<>>

InitParse ==
    /\ pc = "call"
    /\ arg \in Details
    /\ ret = NotCalled
    /\ Idle

CallParseSampleSize ==
    /\ pc = "call"
    /\ pc' = "_parse_sample_size"
    /\ ret' = _parse_sample_size(arg)
    /\ UNCHANGED <<picksSrc, monitorDb, picksDst, portfolioDst, conn, nQueries,
                   all_rows, arg>>

SpecParse == InitParse /\ [][CallParseSampleSize]_vars

----------------------------------------------------------------------------
(* The picks and signals of the single calls.  Edges, win rates and        *)
(* prices are in units of 1/10000, pnl in units of 1/1000.                  *)

NoField == [k \in {} |-> PyNone]
Directions == {"up", "down"}

SignalVariants ==
    { [edge |-> 700, win_rate |-> PyFloat(6200),
       detail |-> PyStr(<<"n", "=", "1", ",", "2">>)],
      [edge |-> 300, detail |-> PyStr(<<"n", "=", "7">>), model_weights |-> PyInt(1)],
      [edge |-> 500, win_rate |-> PyFloat(5500)],
      [edge |-> 200, detail |-> PyStr(<<"n", "=", ",">>)] }

SignalSources == {[source |-> "bin"], [source |-> "model"], NoField}

AllSignals ==
    {PyDict(v @@ s @@ [direction |-> d]) :
        v \in SignalVariants, s \in SignalSources, d \in Directions}

PickBase(d) ==
    [market_id |-> 1, question |-> "q", direction |-> d, market_implied |-> 5000,
     n_signals |-> 2, score |-> 3]

SinglePicks ==
    {PickBase(d) @@ h @@ s @@ x :
        d \in Directions,
        h \in {NoField, [hours_to_resolve |-> 1]},
        s \in {NoField} \cup
              {[signals |-> PyList(l)] : l \in SeqsUpTo(AllSignals, MaxSignals)},
        x \in {NoField, [model_prob |-> 6000]}}

\* the row the monitor keeps for pick p: its signals serialized in signals_json
TrackedPickOf(p) ==
    [market_id |-> p.market_id, question |-> p.question, direction |-> p.direction,
     order_price |-> 4000, mid_price |-> 4500, first_seen |-> 1, status |-> "pending",
     pnl |-> PyNone, resolved_at |-> PyNone,
     signals_json |-> IF "signals" \in DOMAIN p THEN JsonText(p.signals) ELSE PyNone]

----------------------------------------------------------------------------
(* A single call of _get_aligned_bin_signal, of sanitize_pick, or of the    *)
(* row step of export_portfolio, on one pick.                               *)

InitPick ==
    /\ pc = "call"
    /\ arg \in SinglePicks
    /\ ret = NotCalled
    /\ Idle

CallGetAlignedBinSignal ==
    /\ pc = "call"
    /\ pc' = "_get_aligned_bin_signal"
    /\ ret' = _get_aligned_bin_signal(DictGet(arg, "signals", PyList(<<>>)),
                                      arg.direction)
    /\ UNCHANGED <<picksSrc, monitorDb, picksDst, portfolioDst, conn, nQueries,
                   all_rows, arg>>

CallSanitizePick ==
    /\ pc = "call"
    /\ pc' = "sanitize_pick"
    /\ ret' = sanitize_pick(arg)
    /\ UNCHANGED <<picksSrc, monitorDb, picksDst, portfolioDst, conn, nQueries,
                   all_rows, arg>>

CallAlignedRow ==
    /\ pc = "call"
    /\ pc' = "aligned_row"
    /\ ret' = AlignedRow(TrackedPickOf(arg))
    /\ UNCHANGED <<picksSrc, monitorDb, picksDst, portfolioDst, conn, nQueries,
                   all_rows, arg>>

NextPick == CallGetAlignedBinSignal \/ CallSanitizePick \/ CallAlignedRow

SpecPick == InitPick /\ [][NextPick]_vars

----------------------------------------------------------------------------
(* main: export_picks, then export_portfolio in three steps (connect,       *)
(* query, aggregate and write).  A step that raises ends the process with   *)
(* pc = "raised"; ret keeps what the last function returned or raised.      *)

ExportPicks ==
    /\ pc = "export_picks"
    /\ LET out == export_picks(picksSrc)
       IN  /\ picksDst' = IF out.written = PyNone THEN picksDst ELSE File(out.written)
           /\ ret' = out.result
           /\ pc' = IF IsRaised(out.result) THEN "raised" ELSE "export_portfolio"
    /\ UNCHANGED <<picksSrc, monitorDb, portfolioDst, conn, nQueries, all_rows, arg>>

\* lines 94-116: the store is absent and the empty portfolio is written, or
\* the connection is opened
PortfolioConnect ==
    /\ pc = "export_portfolio"
    /\ IF ~monitorDb.exists
       THEN /\ portfolioDst' = File(json_dumps(EmptyPortfolio))
            /\ ret' = Returned(PyNone)
            /\ pc' = "done"
            /\ UNCHANGED conn
       ELSE /\ conn' = "open"
            /\ pc' = "connected"
            /\ UNCHANGED <<portfolioDst, ret>>
    /\ UNCHANGED <<picksSrc, monitorDb, picksDst, nQueries, all_rows, arg>>

\* lines 119-123: the SELECT raises OperationalError when the store has no
\* table tracked_picks
PortfolioQuery ==
    /\ pc = "connected"
    /\ nQueries' = nQueries + 1
    /\ IF monitorDb.content.has_table
       THEN /\ all_rows' = monitorDb.content.rows
            /\ pc' = "fetched"
            /\ UNCHANGED ret
       ELSE /\ ret' = Raised("OperationalError")
            /\ pc' = "raised"
            /\ UNCHANGED all_rows
    /\ UNCHANGED <<picksSrc, monitorDb, picksDst, portfolioDst, conn, arg>>

\* lines 125-181: conn.close() and the write follow the last row
PortfolioAggregate ==
    /\ pc = "fetched"
    /\ LET built == BuildPortfolio(all_rows)
       IN  IF IsRaised(built)
           THEN /\ ret' = built
                /\ pc' = "raised"
                /\ UNCHANGED <<conn, portfolioDst>>
           ELSE /\ conn' = "closed"
                /\ portfolioDst' = File(json_dumps(built.returned))
                /\ ret' = Returned(PyNone)
                /\ pc' = "done"
    /\ UNCHANGED <<picksSrc, monitorDb, picksDst, nQueries, all_rows, arg>>

----------------------------------------------------------------------------
(* The picks files and the stores. *)

MaxPicks == 2
MaxRows == 2
MaxManyRows == 52
MaxMainItems == 1

BinUp ==
    PyDict([source |-> "bin", direction |-> "up", edge |-> 700,
            win_rate |-> PyFloat(6200), detail |-> PyStr(<<"n", "=", "1", ",", "2">>)])
BinUpAlt ==
    PyDict([source |-> "bin", direction |-> "up", edge |-> 300,
            detail |-> PyStr(<<"n", "=", "7">>)])
BinDown ==
    PyDict([source |-> "bin", direction |-> "down", edge |-> 500,
            win_rate |-> PyFloat(5500)])
ModelUp ==
    PyDict([source |-> "model", direction |-> "up", edge |-> 900,
            model_weights |-> PyInt(1)])
Unsourced == PyDict([direction |-> "up", edge |-> 100])

PickSignalLists ==
    {<<>>, <<BinUp>>, <<ModelUp>>, <<ModelUp, BinUp>>, <<BinDown>>, <<BinDown, BinUpAlt>>,
     <<Unsourced, BinUp>>}

PickBodies ==
    {PickBase(d) @@ h @@ s :
        d \in Directions,
        h \in {NoField, [hours_to_resolve |-> 1], [hours_to_resolve |-> 2]},
        s \in {NoField} \cup {[signals |-> PyList(l)] : l \in PickSignalLists}}

\* the list of the bodies b, the i-th with market_id i
Numbered(b) == [i \in DOMAIN b |-> [market_id |-> i] @@ b[i]]

\* the picks files: none, one that is not JSON, or the array of the picks b
PicksFiles(b) == {Absent, File(BadText), File(JsonText(Numbered(b)))}

\* the picks main is run on
MainPickBodies ==
    {p \in PickBodies : p.direction = "up" /\ DictGet(p, "hours_to_resolve", 0) = 1}

\* a timestamp: a str, by its place in the order of strs
Stamp(n) == [type |-> "str", order |-> n]

RowSignalsJson ==
    {PyNone, EmptyText, BadText, JsonText(PyInt(5)), JsonText(PyList(<<PyInt(1)>>)),
     JsonText(PyList(<<BinUp>>)), JsonText(PyList(<<ModelUp>>)),
     JsonText(PyList(<<BinDown, BinUpAlt>>))}

RowOutcomes ==
    { [status |-> "pending", pnl |-> PyNone, resolved_at |-> PyNone],
      [status |-> "won", pnl |-> PyFloat(1505), resolved_at |-> Stamp(2)],
      [status |-> "lost", pnl |-> PyFloat(-1000), resolved_at |-> Stamp(1)],
      [status |-> "won", pnl |-> PyFloat(0), resolved_at |-> PyNone] }

RowBase ==
    [market_id |-> 1, question |-> "q", direction |-> "up", order_price |-> 4000,
     mid_price |-> 4500, first_seen |-> 1]

RowBodies == {RowBase @@ o @@ [signals_json |-> j] : o \in RowOutcomes, j \in RowSignalsJson}

Store(rows) == File([has_table |-> TRUE, rows |-> rows])
StoreWithoutTable == File([has_table |-> FALSE, rows |-> <<>>])

\* the stores: none, one without the table, or one with the rows b
StoreFiles(b) == {Absent, StoreWithoutTable, Store(Numbered(b))}

\* the rows main is run on
MainRowBodies == {r \in RowBodies : r.status = "pending" \/ Truthy(r.resolved_at)}

\* n rows: every m-th has no resolved_at, every u-th has no bin signal,
\* every q-th is pending (0: none); the others are resolved at a * i mod 11
ManyRows(n, a, m, u, q) ==
    [i \in 1..n |->
        [market_id |-> i] @@ RowBase @@
        [status |-> IF q > 0 /\ i % q = 0 THEN "pending"
                    ELSE IF i % 2 = 0 THEN "won" ELSE "lost",
         pnl |-> PyFloat(100),
         resolved_at |-> IF m > 0 /\ i % m = 0 THEN PyNone ELSE Stamp(((a * i) % 11) + 1),
         signals_json |-> IF u > 0 /\ i % u = 0 THEN JsonText(PyList(<<ModelUp>>))
                          ELSE JsonText(PyList(<<BinUp>>))]]

ManyRowsStores ==
    {Store(ManyRows(n, a, m, u, q)) :
        n \in 0..MaxManyRows, a \in {1, 3, 7}, m \in {0, 4}, u \in {0, 5}, q \in {0, 6}}

----------------------------------------------------------------------------
(* The specifications. *)

NotStarted ==
    /\ picksDst = Absent
    /\ portfolioDst = Absent
    /\ conn = "none"
    /\ nQueries = 0
    /\ all_rows = <<>>
    /\ arg = PyNone
    /\ ret = NotCalled

\* main() on the picks files and stores of at most MaxMainItems picks and rows
Init ==
    /\ pc = "export_picks"
    /\ \E k \in 0..MaxMainItems : \E b \in [1..k -> MainPickBodies] :
           picksSrc \in PicksFiles(b)
    /\ \E k \in 0..MaxMainItems : \E b \in [1..k -> MainRowBodies] :
           monitorDb \in StoreFiles(b)
    /\ NotStarted

Next == ExportPicks \/ PortfolioConnect \/ PortfolioQuery \/ PortfolioAggregate

Spec == Init /\ [][Next]_vars

\* export_picks on the arrays of at most MaxPicks picks
InitPicks ==
    /\ pc = "export_picks"
    /\ \E k \in 0..MaxPicks : \E b \in [1..k -> PickBodies] :
           picksSrc \in PicksFiles(b)
    /\ monitorDb = Absent
    /\ NotStarted

SpecPicks == InitPicks /\ [][ExportPicks]_vars

\* the state in which main() calls export_portfolio when there was no picks file
AfterExportPicks ==
    /\ pc = "export_portfolio"
    /\ picksSrc = Absent
    /\ picksDst = File(JsonText(<<>>))
    /\ portfolioDst = Absent
    /\ conn = "none"
    /\ nQueries = 0
    /\ all_rows = <<>>
    /\ arg = PyNone
    /\ ret = Returned(PyNone)

NextPortfolio == PortfolioConnect \/ PortfolioQuery \/ PortfolioAggregate

\* export_portfolio on the stores of at most MaxRows rows
InitPortfolio ==
    /\ AfterExportPicks
    /\ \E k \in 0..MaxRows : \E b \in [1..k -> RowBodies] :
           monitorDb \in StoreFiles(b)

SpecPortfolio == InitPortfolio /\ [][NextPortfolio]_vars

\* export_portfolio on stores of up to MaxManyRows rows
InitManyRows == AfterExportPicks /\ monitorDb \in ManyRowsStores

SpecManyRows == InitManyRows /\ [][NextPortfolio]_vars

----------------------------------------------------------------------------
(* Properties. *)

\* item s is a signal object with source "bin" and direction d
IsBinSignalFor(s, d) ==
    /\ s.type = "dict"
    /\ "source" \in DOMAIN s.fields
    /\ s.fields.source = "bin"
    /\ "direction" \in DOMAIN s.fields
    /\ s.fields.direction = d

\* the places of the bin signals of pick p that have p's direction
AlignedPlaces(p) ==
    IF "signals" \in DOMAIN p
    THEN {i \in 1..Len(p.signals.items) : IsBinSignalFor(p.signals.items[i], p.direction)}
    ELSE {}

\* the same for a tracked-pick row, whose signals are the JSON in signals_json
RowAlignedPlaces(r) ==
    IF /\ r.signals_json.type = "str"
       /\ "json" \in DOMAIN r.signals_json
       /\ r.signals_json.json.type = "list"
    THEN {i \in 1..Len(r.signals_json.json.items) :
              IsBinSignalFor(r.signals_json.json.items[i], r.direction)}
    ELSE {}

Least(S) == CHOOSE i \in S : \A j \in S : i <= j

PublicKeys ==
    {"market_id", "question", "direction", "bin_edge", "bin_win_rate", "bin_n",
     "market_implied", "n_signals", "score", "hours_to_resolve"}

\* C1: whenever sanitize_pick returns for a pick, whatever extra fields the
\* pick or its signals carry, the result has exactly the ten public keys;
\* the seven that are not bin fields are the pick's own, and bin_edge,
\* bin_win_rate and bin_n come from one signal of the pick whose source is
\* "bin".
C1_SanitizeProjection ==
    (pc = "sanitize_pick" /\ IsReturned(ret)) =>
        LET out == ret.returned
        IN  /\ DOMAIN out = PublicKeys
            /\ \A k \in PublicKeys \ {"bin_edge", "bin_win_rate", "bin_n"} : out[k] = arg[k]
            /\ "signals" \in DOMAIN arg
            /\ \E i \in 1..Len(arg.signals.items) :
                   LET f == arg.signals.items[i].fields
                   IN  /\ "source" \in DOMAIN f
                       /\ f.source = "bin"
                       /\ out.bin_edge = f.edge
                       /\ out.bin_win_rate = Get(f, "win_rate")
                       /\ Returned(out.bin_n) = _parse_sample_size(Get(f, "detail"))

\* sanitize_pick returned for a pick with an internal field and with a
\* signal that is not a bin signal and carries an internal field
C1_Witness ==
    /\ pc = "sanitize_pick"
    /\ IsReturned(ret)
    /\ "model_prob" \in DOMAIN arg
    /\ \E i \in 1..Len(arg.signals.items) :
           LET f == arg.signals.items[i].fields
           IN  /\ "source" \in DOMAIN f
               /\ f.source = "model"
               /\ "model_weights" \in DOMAIN f

\* C2: whenever export_picks writes picks.json for an array of picks, a pick
\* has an entry iff one of its signals has source "bin" and the pick's
\* direction; it then has exactly one entry, and there are no other entries.
C2_PublishedIffAligned ==
    (pc # "export_picks" /\ picksSrc.exists /\ "json" \in DOMAIN picksSrc.content
        /\ picksDst.exists) =>
        LET picks == picksSrc.content.json
            out == picksDst.content.json
        IN  /\ \A j \in 1..Len(out) : out[j].market_id \in 1..Len(picks)
            /\ \A k \in 1..Len(picks) :
                   Cardinality({j \in 1..Len(out) : out[j].market_id = picks[k].market_id})
                       = IF AlignedPlaces(picks[k]) # {} THEN 1 ELSE 0

\* picks.json was written for two picks of which exactly one is published
C2_Witness ==
    /\ pc # "export_picks"
    /\ picksSrc.exists
    /\ "json" \in DOMAIN picksSrc.content
    /\ picksDst.exists
    /\ Len(picksSrc.content.json) = 2
    /\ Len(picksDst.content.json) = 1
    /\ \E k \in 1..2 : LET p == picksSrc.content.json[k]
                       IN  /\ AlignedPlaces(p) = {}
                           /\ "signals" \in DOMAIN p
                           /\ \E i \in 1..Len(p.signals.items) :
                                  p.signals.items[i].fields.source = "bin"

\* C3: for every array of picks, export_picks writes a picks.json whose
\* entries are sorted non-decreasing by hours_to_resolve, and every
\* publishable pick without hours_to_resolve has an entry, after all entries
\* that have one.
C3_SortedMissingLast ==
    (pc # "export_picks" /\ picksSrc.exists /\ "json" \in DOMAIN picksSrc.content) =>
        /\ picksDst.exists
        /\ LET picks == picksSrc.content.json
               out == picksDst.content.json
               HasHours(e) == "hours_to_resolve" \in DOMAIN e /\ e.hours_to_resolve # PyNone
           IN  /\ \A i, j \in 1..Len(out) :
                      (i < j /\ HasHours(out[i]) /\ HasHours(out[j]))
                          => out[i].hours_to_resolve <= out[j].hours_to_resolve
               /\ \A k \in 1..Len(picks) :
                      (AlignedPlaces(picks[k]) # {} /\ "hours_to_resolve" \notin DOMAIN picks[k])
                          => \E j \in 1..Len(out) :
                                 /\ out[j].market_id = picks[k].market_id
                                 /\ \A i \in 1..Len(out) : HasHours(out[i]) => i < j

\* C4: whatever the signals_json of the rows, export_portfolio does not
\* raise: once the rows are fetched it ends with portfolio.json written, the
\* portfolio being that of the rows whose signals_json is a JSON list of
\* signal objects.
C4_BadSignalsJsonSkipped ==
    (monitorDb.exists /\ monitorDb.content.has_table /\ pc \in {"done", "raised"}) =>
        /\ pc = "done"
        /\ portfolioDst.exists
        /\ LET WellFormed(r) ==
                   /\ r.signals_json.type = "str"
                   /\ "json" \in DOMAIN r.signals_json
                   /\ r.signals_json.json.type = "list"
                   /\ \A i \in 1..Len(r.signals_json.json.items) :
                          r.signals_json.json.items[i].type = "dict"
           IN  Returned(portfolioDst.content.json)
                   = BuildPortfolio(SelectSeq(monitorDb.content.rows, WellFormed))

\* the portfolio with everything zero, null or empty
ZeroedPortfolio ==
    [updated_at |-> "now",
     summary |-> [pending |-> 0, wins |-> 0, losses |-> 0, win_rate |-> PyFloat(0),
                  total_pnl |-> PyFloat(0), avg_bin_edge |-> PyNone],
     pending_picks |-> <<>>,
     recent_resolutions |-> <<>>]

\* C5: when the picks file does not exist, export_picks writes "[]" to
\* picks.json and returns, so that main goes on to export_portfolio; when
\* the store does not exist, export_portfolio writes the zeroed portfolio
\* and returns.
C5_AbsentInputsRecovered ==
    [][/\ (pc = "export_picks" /\ ~picksSrc.exists)
            => (picksDst' = File(JsonText(<<>>)) /\ pc' = "export_portfolio")
       /\ (pc = "export_portfolio" /\ ~monitorDb.exists)
            => (portfolioDst' = File(JsonText(ZeroedPortfolio)) /\ pc' = "done")]_vars

\* main ended with neither input present
C5_Witness ==
    /\ pc = "done"
    /\ ~picksSrc.exists
    /\ ~monitorDb.exists
    /\ picksDst.exists
    /\ portfolioDst.exists

\* C6: in the portfolio.json that export_portfolio writes from the store,
\* pending, wins and losses count the pending, won and lost rows among the
\* rows with a bin signal of the row's direction; the other rows contribute
\* nothing (the portfolio is that of the store without them) and appear in
\* neither list.
C6_AlignedRowsOnly ==
    (pc = "done" /\ monitorDb.exists) =>
        LET rows == monitorDb.content.rows
            P == portfolioDst.content.json
            Aligned(r) == RowAlignedPlaces(r) # {}
            Count(s) == Cardinality({i \in 1..Len(rows) :
                                        rows[i].status = s /\ Aligned(rows[i])})
        IN  /\ P.summary.pending = Count("pending")
            /\ P.summary.wins = Count("won")
            /\ P.summary.losses = Count("lost")
            /\ Returned(P) = BuildPortfolio(SelectSeq(rows, Aligned))
            /\ (P.summary.avg_bin_edge = PyNone) <=> (SelectSeq(rows, Aligned) = <<>>)
            /\ \A j \in 1..Len(P.pending_picks) :
                   Aligned(rows[P.pending_picks[j].market_id])
            /\ \A j \in 1..Len(P.recent_resolutions) :
                   Aligned(rows[P.recent_resolutions[j].market_id])

\* a portfolio of a store with a won row whose only signal is a model
\* signal and with an aligned row
C6_Witness ==
    /\ pc = "done"
    /\ monitorDb.exists
    /\ \E i, j \in 1..Len(monitorDb.content.rows) :
           LET r == monitorDb.content.rows[i]
           IN  /\ r.signals_json = JsonText(PyList(<<ModelUp>>))
               /\ r.status = "won"
               /\ Truthy(r.pnl)
               /\ RowAlignedPlaces(monitorDb.content.rows[j]) # {}

\* the aligned rows of the store with status won or lost, by their place
ResolvedPlaces ==
    {i \in 1..Len(monitorDb.content.rows) :
        /\ RowAlignedPlaces(monitorDb.content.rows[i]) # {}
        /\ monitorDb.content.rows[i].status \in {"won", "lost"}}

\* when a row was resolved: a row without resolved_at counts as earliest
ResolvedWhen(r) == IF r.resolved_at = PyNone THEN 0 ELSE r.resolved_at.order

\* C7: recent_resolutions holds only aligned rows with status won or lost,
\* each at most once, min(50, number of such rows) of them, descending by
\* resolved_at with the rows without resolved_at after all the others, and
\* no omitted resolved row was resolved later than an included one.
C7_RecentResolutions ==
    (pc = "done" /\ monitorDb.exists) =>
        LET rows == monitorDb.content.rows
            rec == portfolioDst.content.json.recent_resolutions
            n == Cardinality(ResolvedPlaces)
            included == {rec[j].market_id : j \in 1..Len(rec)}
        IN  /\ included \subseteq ResolvedPlaces
            /\ \A j \in 1..Len(rec) :
                   /\ rec[j].status \in {"won", "lost"}
                   /\ rec[j].resolved_at = rows[rec[j].market_id].resolved_at
            /\ Cardinality(included) = Len(rec)
            /\ Len(rec) = IF n < 50 THEN n ELSE 50
            /\ \A i, j \in 1..Len(rec) :
                   i < j => /\ ResolvedWhen(rec[i]) >= ResolvedWhen(rec[j])
                            /\ rec[i].resolved_at = PyNone => rec[j].resolved_at = PyNone
            /\ \A o \in ResolvedPlaces \ included :
                   \A j \in 1..Len(rec) : ResolvedWhen(rows[o]) <= ResolvedWhen(rec[j])

\* more than 50 resolved aligned rows, some left out, and rows with and
\* without resolved_at among the 50 kept
C7_Witness ==
    /\ pc = "done"
    /\ monitorDb.exists
    /\ Cardinality(ResolvedPlaces) > 50
    /\ LET rec == portfolioDst.content.json.recent_resolutions
       IN  /\ Len(rec) = 50
           /\ rec[1].resolved_at # PyNone
           /\ rec[50].resolved_at = PyNone

\* C8: for every detail, _parse_sample_size does not raise: it returns none
\* when no "n=" is followed by digits or separators, and else the integer
\* written there.
C8_ParseNeverRaises ==
    pc = "_parse_sample_size" =>
        /\ IsReturned(ret)
        /\ LET text == IF arg = PyNone THEN <<>> ELSE arg.value
           IN  IF \E i \in 1..Len(text) : MatchesAt(text, i)
               THEN ret.returned.type = "int"
               ELSE ret.returned = PyNone

\* C9: _get_aligned_bin_signal returns none exactly when no signal has
\* source "bin" and the pick's direction, and else the earliest such signal;
\* the bin_edge, bin_win_rate and bin_n that sanitize_pick publishes, and
\* the bin_edge and bin_n of a tracked pick, are all those of that signal.
C9_FirstAlignedSignal ==
    LET places == AlignedPlaces(arg)
        first == arg.signals.items[Least(places)]
    IN  /\ pc = "_get_aligned_bin_signal" =>
               /\ IsReturned(ret)
               /\ (ret.returned = PyNone) <=> (places = {})
               /\ places # {} => ret.returned = first
        /\ (pc = "sanitize_pick" /\ IsReturned(ret)) =>
               /\ places # {}
               /\ ret.returned.bin_edge = first.fields.edge
               /\ ret.returned.bin_win_rate = Get(first.fields, "win_rate")
               /\ Returned(ret.returned.bin_n)
                      = _parse_sample_size(Get(first.fields, "detail"))
        /\ (pc = "aligned_row" /\ IsReturned(ret)) =>
               /\ (ret.returned = PyNone) <=> (places = {})
               /\ places # {} =>
                      /\ ret.returned.bin_edge = first.fields.edge
                      /\ Returned(ret.returned.bin_n)
                             = _parse_sample_size(Get(first.fields, "detail"))

\* sanitize_pick returned for a pick with two aligned bin signals of
\* different edge, win rate and sample size
C9_Witness ==
    /\ pc = "sanitize_pick"
    /\ IsReturned(ret)
    /\ \E i, j \in AlignedPlaces(arg) :
           LET a == arg.signals.items[i].fields
               b == arg.signals.items[j].fields
           IN  /\ i < j
               /\ a.edge # b.edge
               /\ Get(a, "win_rate") # Get(b, "win_rate")
               /\ Get(a, "detail") # Get(b, "detail")

\* C10: when the store exists, export_portfolio ends, normally or by an
\* error, with the connection closed and the store queried exactly once.
C10_ConnectionClosed ==
    (monitorDb.exists /\ pc \in {"done", "raised"}) =>
        /\ conn = "closed"
        /\ nQueries = 1

====
